---- MODULE Spec2Model ----
(***************************************************************************)
(* Items CRUD service over one MongoDB collection (FastAPI + Motor).       *)
(*   src/backend/src/api/db.py            connection holder                *)
(*   src/backend/src/api/models.py        identifier parsing, schemas      *)
(*   src/backend/src/api/routes/items.py  the five request handlers        *)
(*   src/backend/src/api/main.py          lifecycle hooks, health probes   *)
(***************************************************************************)
EXTENDS Integers, Sequences, FiniteSets, TLC

(***************************************************************************)
(* Bounds of the model.                                                    *)
(***************************************************************************)
\* insert_one calls over a run (ObjectIds the driver generates)
MaxCreates == 2
\* latest reading of the wall clock, in clock ticks
MaxTime == 2
\* clock ticks per unit of the store's date resolution: datetime.now has
\* microsecond resolution and a BSON date holds milliseconds (1000 ticks),
\* scaled down so that both sides of the truncation are reached
TicksPerMs == 2
\* the length given to to_list (1000 in list_items), scaled down so that the
\* truncation is reached
ListLength == 1
\* MongoDB.init() calls over a run of the holder
MaxInits == 2
\* requests in flight at once in the interleaved specification
MaxInflight == 2

(***************************************************************************)
(* Values.                                                                 *)
(***************************************************************************)
\* Python None / JSON null
None == "None"
\* a field that the JSON body does not hold
Absent == "Absent"
\* a JSON value that is no string (an object), which the schemas reject
NotAString == "NotAString"

\* digits per ObjectId string (bson: 12 bytes, two hex digits each)
OidHexLen == 24

LowerHex == {"0", "1", "2", "3", "4", "5", "6", "7", "8", "9",
             "a", "b", "c", "d", "e", "f"}
UpperHex == {"A", "B", "C", "D", "E", "F"}

\* the hex digit c in lower case, as str(ObjectId) prints it
lower(c) ==
    CASE c = "A" -> "a" [] c = "B" -> "b" [] c = "C" -> "c"
      [] c = "D" -> "d" [] c = "E" -> "e" [] c = "F" -> "f"
      [] OTHER -> c

\* ObjectId(value) for a str: 24 hex digits, else InvalidId
ObjectIdValid(value) ==
    /\ Len(value) = OidHexLen
    /\ \A i \in 1..Len(value) : value[i] \in LowerHex \cup UpperHex

\* the characters of cs as one string
RECURSIVE JoinFrom(_, _)
JoinFrom(cs, i) == IF i > Len(cs) THEN "" ELSE cs[i] \o JoinFrom(cs, i + 1)
Join(cs) == JoinFrom(cs, 1)

\* The parse accepting any string of the right length.
object_id_from_str_LengthOnly(value) ==
    IF Len(value) = OidHexLen
    THEN [ok |-> TRUE, oid |-> Join([i \in 1..Len(value) |-> lower(value[i])])]
    ELSE [ok |-> FALSE, oid |-> ""]

\* models.object_id_from_str: the ObjectId, or ValueError (ok = FALSE).
\* The id string arrives as its sequence of characters; an ObjectId is its
\* 12 bytes, written here as the string of their lower-case hex digits.
object_id_from_str(value) ==
    IF ObjectIdValid(value)
    THEN [ok |-> TRUE, oid |-> Join([i \in 1..Len(value) |-> lower(value[i])])]
    ELSE [ok |-> FALSE, oid |-> ""]

\* str(oid): the 24 lower-case hex digits
OidToStr(oid) == oid

\* a string of n copies of c, as its characters
Rep(c, n) == [i \in 1..n |-> c]

\* the k-th ObjectId the driver generates: distinct for distinct k
GenDigits == <<"a", "b", "c", "d", "e">>
GenChars(k) == [Rep("0", OidHexLen) EXCEPT ![OidHexLen] = GenDigits[k]]
NewObjectId(k) == Join(GenChars(k))

\* the id strings a client sends in the path
NeverGenerated == Rep("f", OidHexLen)
NotAnId == <<"n", "o", "t", "-", "a", "n", "-", "i", "d">>
WellFormedIds ==
    {GenChars(k) : k \in 1..MaxCreates}
        \cup {[GenChars(1) EXCEPT ![OidHexLen] = "A"]}  \* upper-case spelling
        \cup {NeverGenerated}
MalformedIds ==
    { NotAnId,
      Rep("0", OidHexLen - 1),
      [Rep("0", OidHexLen) EXCEPT ![1] = "g"] }
IdStrings == WellFormedIds \cup MalformedIds
\* the ids of the requests of the deployed service's specification: the
\* ids the driver generates, asked for before, while and after they are stored
RequestIds == {GenChars(k) : k \in 1..MaxCreates}

(***************************************************************************)
(* Schemas (models.py).  A raw body is [name, description], each a string, *)
(* None (JSON null), Absent or NotAString.                                 *)
(***************************************************************************)
RawCreateBodies ==
    {[name |-> "a", description |-> "d"],
     [name |-> "a", description |-> Absent],
     [name |-> "", description |-> Absent]}
RawUpdateBodies ==
    {[name |-> Absent, description |-> Absent],
     [name |-> "b", description |-> Absent],
     [name |-> Absent, description |-> "e"],
     [name |-> "", description |-> Absent],
     [name |-> Absent, description |-> None]}
\* the bodies of the requests of the identifier specification
FewCreateBodies == {[name |-> "a", description |-> Absent]}
FewUpdateBodies ==
    {[name |-> Absent, description |-> Absent],
     [name |-> "b", description |-> Absent],
     [name |-> NotAString, description |-> Absent]}

\* Optional[str] with default None: absent and null both give None
OptionalStr(v) == IF v \in {Absent, None} THEN None ELSE v

\* ItemBase / ItemCreate: name is a required str, min_length 1
ItemCreateValid(raw) ==
    /\ raw.name \notin {Absent, None, NotAString}
    /\ Len(raw.name) >= 1
    /\ raw.description # NotAString
ItemCreate(raw) ==
    [name |-> raw.name, description |-> OptionalStr(raw.description)]

\* ItemUpdate: both Optional[str], no length constraint
ItemUpdateValid(raw) ==
    raw.name # NotAString /\ raw.description # NotAString
ItemUpdate(raw) ==
    [name |-> OptionalStr(raw.name),
     description |-> OptionalStr(raw.description)]

\* ItemOut(...): the model, or a ValidationError when name (inherited from
\* ItemBase, min_length 1) is empty
ItemOutValid(name) == Len(name) >= 1

(***************************************************************************)
(* Timestamps.  A datetime is [t, tz]: an instant in ticks and whether it  *)
(* carries the UTC offset.                                                 *)
(***************************************************************************)
\* datetime.now(timezone.utc) at clock reading t
UtcNow(t) == [t |-> t, tz |-> "utc"]
\* the BSON date the driver writes for a datetime: whole milliseconds
BsonDate(dt) == dt.t - (dt.t % TicksPerMs)
\* the datetime the driver reads back (the client is not tz_aware)
FromBsonDate(ms) == [t |-> ms, tz |-> "naive"]

(***************************************************************************)
(* The items collection: a function from ObjectIds to stored documents     *)
(* [name, description, created_at], created_at a BSON date.  The operators *)
(* are the driver calls the handlers make, each atomic in the store, and   *)
(* give [coll, result]: the collection afterwards and what the call        *)
(* returns.  A document read back is [_id, name, description, created_at]. *)
(***************************************************************************)
Decode(coll, oid) ==
    [_id |-> oid, name |-> coll[oid].name,
     description |-> coll[oid].description,
     created_at |-> FromBsonDate(coll[oid].created_at)]

\* The insert that reuses the lowest ObjectId not in the collection.
insert_one_ReuseId(coll, doc, k) ==
    LET free == {j \in 1..k : NewObjectId(j) \notin DOMAIN coll}
        j == CHOOSE m \in free : \A n \in free : m <= n
        oid == NewObjectId(j)
        stored == [name |-> doc.name, description |-> doc.description,
                   created_at |-> BsonDate(doc.created_at)]
    IN  [coll |-> [o \in DOMAIN coll \cup {oid} |->
                      IF o = oid THEN stored ELSE coll[o]],
         result |-> oid]

\* db["items"].insert_one(doc): the driver gives the document a fresh
\* ObjectId (its k-th) and the store keeps the BSON encoding of the fields.
insert_one(coll, doc, k) ==
    LET oid == NewObjectId(k)
        stored == [name |-> doc.name, description |-> doc.description,
                   created_at |-> BsonDate(doc.created_at)]
    IN  [coll |-> [o \in DOMAIN coll \cup {oid} |->
                      IF o = oid THEN stored ELSE coll[o]],
         result |-> oid]

\* db["items"].find_one({"_id": oid}): <<doc>>, or <<>> for None
find_one(coll, oid) ==
    [coll |-> coll,
     result |-> IF oid \in DOMAIN coll THEN <<Decode(coll, oid)>> ELSE <<>>]

\* $set of the fields of update_doc on one stored document
ApplySet(stored, update_doc) ==
    [name |-> IF "name" \in DOMAIN update_doc
              THEN update_doc["name"] ELSE stored.name,
     description |-> IF "description" \in DOMAIN update_doc
                     THEN update_doc["description"] ELSE stored.description,
     created_at |-> stored.created_at]

\* The update with upsert: a missing document is inserted.
find_one_and_update_Upsert(coll, oid, update_doc) ==
    LET base == IF oid \in DOMAIN coll THEN coll[oid]
                ELSE [name |-> None, description |-> None, created_at |-> 0]
        after == [o \in DOMAIN coll \cup {oid} |->
                     IF o = oid THEN ApplySet(base, update_doc) ELSE coll[o]]
    IN  [coll |-> after, result |-> <<Decode(after, oid)>>]

\* The update that replaces the document: fields not given become None.
find_one_and_update_Replace(coll, oid, update_doc) ==
    IF oid \in DOMAIN coll
    THEN LET blank == [name |-> coll[oid].name, description |-> None,
                       created_at |-> coll[oid].created_at]
             after == [coll EXCEPT ![oid] = ApplySet(blank, update_doc)]
         IN  [coll |-> after, result |-> <<Decode(after, oid)>>]
    ELSE [coll |-> coll, result |-> <<>>]

\* db["items"].find_one_and_update({"_id": oid}, {"$set": update_doc},
\* return_document=True): no upsert; the document after the update, or None
find_one_and_update(coll, oid, update_doc) ==
    IF oid \in DOMAIN coll
    THEN LET after == [coll EXCEPT ![oid] = ApplySet(coll[oid], update_doc)]
         IN  [coll |-> after, result |-> <<Decode(after, oid)>>]
    ELSE [coll |-> coll, result |-> <<>>]


\* db["items"].delete_one({"_id": oid}): result is deleted_count
delete_one(coll, oid) ==
    [coll |-> [o \in DOMAIN coll \ {oid} |-> coll[o]],
     result |-> IF oid \in DOMAIN coll THEN 1 ELSE 0]

\* the sequences over S without repetition, of length n
RECURSIVE Arrangements(_, _)
Arrangements(S, n) ==
    IF n = 0 THEN {<<>>}
    ELSE UNION {{<<x>> \o rest : rest \in Arrangements(S \ {x}, n - 1)} : x \in S}

Min(a, b) == IF a <= b THEN a ELSE b


\* db["items"].find({}).sort("created_at", -1) then to_list(length): every
\* order of all documents that is descending in created_at (the store
\* breaks ties as it likes), cut to the first `length`
find_sorted(coll, length) ==
    LET n == Min(length, Cardinality(DOMAIN coll))
    IN  {[i \in 1..n |-> Decode(coll, order[i])] :
            order \in {o \in Arrangements(DOMAIN coll, Cardinality(DOMAIN coll)) :
                         \A i, j \in 1..Cardinality(DOMAIN coll) :
                            i < j => coll[o[i]].created_at >= coll[o[j]].created_at}}

(***************************************************************************)
(* Document Mapper (routes/items.py).                                      *)
(***************************************************************************)
\* _item_doc_to_out(doc): ItemOut(id=str(doc["_id"]), ...), which raises a
\* ValidationError (ok = FALSE) when the name fails ItemBase's min_length
_item_doc_to_out(doc) ==
    IF ItemOutValid(doc.name)
    THEN [ok |-> TRUE,
          out |-> <<[id |-> OidToStr(doc._id), name |-> doc.name,
                     description |-> doc.description,
                     created_at |-> doc.created_at]>>]
    ELSE [ok |-> FALSE, out |-> <<>>]


\* update_item, lines 94-98: the fields of the payload that are not None
BuildUpdateDoc(payload) ==
    [f \in {g \in {"name", "description"} :
              (g = "name" /\ payload.name # None)
              \/ (g = "description" /\ payload.description # None)} |->
        IF f = "name" THEN payload.name ELSE payload.description]

(***************************************************************************)
(* State.                                                                  *)
(***************************************************************************)
VARIABLES
    phase,       \* the application: "new", "serving" (startup done), "stopped"
    _client,     \* MongoDB._client: None or the client
    _db,         \* MongoDB._db: None or the database handle
    openClients, \* clients constructed by init() and not yet closed
    inits,       \* init() calls so far
    items,       \* the items collection of the store
    now,         \* the wall clock as last read, in ticks
    nextOid,     \* the number of the next ObjectId the driver generates
    last,        \* the last request completed and its response
    created,     \* ObjectIds that a Create has returned with 201
    deleted,     \* ObjectIds whose Delete has returned 204
    fresh,       \* ObjectId -> the item its Create returned, for the ids
                 \* that no Update or Delete has been asked for since
    inflight     \* the requests in flight (interleaved specification)

vars == <<phase, _client, _db, openClients, inits, items, now, nextOid, last,
          created, deleted, fresh, inflight>>

holder == <<_client, _db, openClients, inits>>
history == <<created, deleted, fresh>>

NoBody == [name |-> Absent, description |-> Absent]

\* a completed request: what was asked, the status and detail of the answer,
\* its body (a sequence of items), the store calls the handler issued and
\* the handle the handler got from get_db (None when it got none)
Response(op, id, payload, status, detail, body, calls, handle) ==
    [op |-> op, id |-> id, payload |-> payload, status |-> status,
     detail |-> detail, body |-> body, calls |-> calls, handle |-> handle]

Slots == 1..MaxInflight
Idle == [stage |-> "idle", op |-> "", id |-> <<>>, payload |-> NoBody,
         oid |-> "", doc |-> <<>>, result |-> <<>>]

Init ==
    /\ phase = "new"
    /\ _client = None
    /\ _db = None
    /\ openClients = 0
    /\ inits = 0
    /\ items = <<>>
    /\ now = 0
    /\ nextOid = 1
    /\ last = Response("", <<>>, NoBody, 0, "", <<>>, <<>>, None)
    /\ created = {}
    /\ deleted = {}
    /\ fresh = <<>>
    /\ inflight = [s \in Slots |-> Idle]

Put(f, k, v) == [x \in DOMAIN f \cup {k} |-> IF x = k THEN v ELSE f[x]]
Drop(f, k) == [x \in DOMAIN f \ {k} |-> f[x]]

(***************************************************************************)
(* Connection Holder (db.py).                                              *)
(***************************************************************************)
\* The property that hands out whatever the field holds.
db_property_Unchecked ==
    [ok |-> TRUE, handle |-> _db]

\* MongoDB.client: the client, or RuntimeError (ok = FALSE)
client_property ==
    IF _client = None THEN [ok |-> FALSE, handle |-> None]
    ELSE [ok |-> TRUE, handle |-> _client]

\* MongoDB.db: the database handle, or RuntimeError (ok = FALSE)
db_property ==
    IF _db = None THEN [ok |-> FALSE, handle |-> None]
    ELSE [ok |-> TRUE, handle |-> _db]

\* get_db(): mongodb.db
get_db == db_property

\* MongoDB.init(): a new client and its database replace the fields
MongoDB_init ==
    /\ _client' = "AsyncIOMotorClient"
    /\ _db' = "AsyncIOMotorDatabase"
    /\ openClients' = openClients + 1
    /\ inits' = inits + 1

\* MongoDB.close(): closes the client if there is one, then clears the fields
MongoDB_close ==
    /\ openClients' = IF _client # None THEN openClients - 1 ELSE openClients
    /\ _client' = None
    /\ _db' = None
    /\ inits' = inits

\* a call of mongodb.init() by any code of the process
init ==
    /\ inits < MaxInits
    /\ MongoDB_init
    /\ last' = Response("init", <<>>, NoBody, 0, "", <<>>, <<>>, None)
    /\ UNCHANGED <<phase, items, now, nextOid, history, inflight>>

\* a call of mongodb.close() by any code of the process
close ==
    /\ MongoDB_close
    /\ last' = Response("close", <<>>, NoBody, 0, "", <<>>, <<>>, None)
    /\ UNCHANGED <<phase, items, now, nextOid, history, inflight>>

\* a read of mongodb.client by any code of the process
read_client ==
    /\ last' = Response("client", <<>>, NoBody, 0,
                        IF client_property.ok THEN "" ELSE "RuntimeError",
                        <<>>, <<>>, client_property.handle)
    /\ UNCHANGED <<phase, holder, items, now, nextOid, history, inflight>>

\* a read of mongodb.db by any code of the process
read_db ==
    /\ last' = Response("db", <<>>, NoBody, 0,
                        IF db_property.ok THEN "" ELSE "RuntimeError",
                        <<>>, <<>>, db_property.handle)
    /\ UNCHANGED <<phase, holder, items, now, nextOid, history, inflight>>

(***************************************************************************)
(* Lifecycle hooks and health probes (main.py).                            *)
(***************************************************************************)
\* on_startup: mongodb.init(), once, before requests are served
on_startup ==
    /\ phase = "new"
    /\ phase' = "serving"
    /\ MongoDB_init
    /\ last' = Response("init", <<>>, NoBody, 0, "", <<>>, <<>>, None)
    /\ UNCHANGED <<items, now, nextOid, history, inflight>>

\* on_shutdown: await mongodb.close(), after the last request
on_shutdown ==
    /\ phase = "serving"
    /\ \A s \in Slots : inflight[s].stage = "idle"
    /\ phase' = "stopped"
    /\ MongoDB_close
    /\ last' = Response("close", <<>>, NoBody, 0, "", <<>>, <<>>, None)
    /\ UNCHANGED <<items, now, nextOid, history, inflight>>

\* GET /health: mongodb.db.command("ping")
health_check ==
    /\ last' = IF db_property.ok
               THEN Response("health", <<>>, NoBody, 200, "", <<>>,
                             <<"ping">>, db_property.handle)
               ELSE Response("health", <<>>, NoBody, 500, "RuntimeError",
                             <<>>, <<>>, None)
    /\ UNCHANGED <<phase, holder, items, now, nextOid, history, inflight>>

\* GET /: no dependency, no store call
root_health_check ==
    /\ last' = Response("root", <<>>, NoBody, 200, "", <<>>, <<>>, None)
    /\ UNCHANGED <<phase, holder, items, now, nextOid, history, inflight>>

\* the readings datetime.now can give: the clock has not gone back since
\* it was last read
ClockReadings == now..MaxTime

(***************************************************************************)
(* Request Handlers (routes/items.py): what each handler answers, given    *)
(* what get_db gave it and what its store call returned.                   *)
(***************************************************************************)
\* get_db raised: the RuntimeError surfaces as a server error
Unavailable(op, id, raw) ==
    Response(op, id, raw, 500, "RuntimeError", <<>>, <<>>, None)

\* the body does not fit the schema: the framework answers, no handler runs
Unprocessable(op, id, raw, dep) ==
    Response(op, id, raw, 422, "RequestValidationError", <<>>, <<>>, dep.handle)

\* except ValueError: HTTPException(422, "Invalid ObjectId")
InvalidObjectId(op, id, raw, dep) ==
    Response(op, id, raw, 422, "Invalid ObjectId", <<>>, <<>>, dep.handle)


\* a document to return: 200/201 with the item, or the ValidationError of
\* ItemOut as a server error
ItemAnswer(op, id, raw, dep, status, doc, calls) ==
    IF _item_doc_to_out(doc).ok
    THEN Response(op, id, raw, status, "", _item_doc_to_out(doc).out, calls,
                  dep.handle)
    ELSE Response(op, id, raw, 500, "ValidationError", <<>>, calls, dep.handle)

\* `if not doc: raise HTTPException(404)`, else the item
FoundAnswer(op, id, raw, dep, found, calls) ==
    IF found = <<>>
    THEN Response(op, id, raw, 404, "Item not found", <<>>, calls, dep.handle)
    ELSE ItemAnswer(op, id, raw, dep, 200, found[1], calls)

\* The document built without the description.
NewDoc_NoDescription(payload, t) ==
    [name |-> payload.name, description |-> None, created_at |-> UtcNow(t)]

\* create_item, lines 35-36: the document built from the payload and the clock
NewDoc(payload, t) ==
    [name |-> payload.name, description |-> payload.description,
     created_at |-> UtcNow(t)]

\* create_item, lines 38-39: the local document with the inserted id
create_item_answer(raw, dep, doc, inserted_id) ==
    ItemAnswer("create", <<>>, raw, dep, 201,
               [_id |-> inserted_id, name |-> doc.name,
                description |-> doc.description, created_at |-> doc.created_at],
               <<"insert_one">>)

\* list_items, line 52
list_items_answer(dep, docs) ==
    IF \A i \in 1..Len(docs) : _item_doc_to_out(docs[i]).ok
    THEN Response("list", <<>>, NoBody, 200, "",
                  [i \in 1..Len(docs) |-> _item_doc_to_out(docs[i]).out[1]],
                  <<"find">>, dep.handle)
    ELSE Response("list", <<>>, NoBody, 500, "ValidationError", <<>>,
                  <<"find">>, dep.handle)

\* get_item, lines 72-74
get_item_answer(id, dep, found) ==
    FoundAnswer("get", id, NoBody, dep, found, <<"find_one">>)

\* update_item, lines 103-105 and 112-114
update_item_answer(id, raw, dep, found, call) ==
    FoundAnswer("update", id, raw, dep, found, <<call>>)

\* delete_item, lines 134-136
delete_item_answer(id, dep, deleted_count) ==
    IF deleted_count = 0
    THEN Response("delete", id, NoBody, 404, "Item not found", <<>>,
                  <<"delete_one">>, dep.handle)
    ELSE Response("delete", id, NoBody, 204, "", <<>>, <<"delete_one">>,
                  dep.handle)

(***************************************************************************)
(* The handlers, each a whole request.                                     *)
(***************************************************************************)
\* the request ends with answer r and leaves store and history alone
Refuse(r) ==
    /\ last' = r
    /\ UNCHANGED <<phase, holder, items, now, nextOid, history, inflight>>

\* POST /items, the clock reading t
create_item(raw, t) ==
    LET dep == get_db
        doc == NewDoc(ItemCreate(raw), t)
        ins == insert_one(items, doc, nextOid)
        r   == create_item_answer(raw, dep, doc, ins.result)
    IN  IF ~dep.ok THEN Refuse(Unavailable("create", <<>>, raw))
        ELSE IF ~ItemCreateValid(raw)
        THEN Refuse(Unprocessable("create", <<>>, raw, dep))
        ELSE /\ nextOid <= MaxCreates
             /\ items' = ins.coll
             /\ nextOid' = nextOid + 1
             /\ last' = r
             /\ created' = IF r.status = 201 THEN created \cup {ins.result}
                           ELSE created
             /\ fresh' = IF r.status = 201 THEN Put(fresh, ins.result, r.body[1])
                         ELSE fresh
             /\ now' = t
             /\ UNCHANGED <<phase, holder, deleted, inflight>>

\* GET /items
list_items ==
    LET dep == get_db
    IN  IF ~dep.ok THEN Refuse(Unavailable("list", <<>>, NoBody))
        ELSE \E docs \in find_sorted(items, ListLength) :
                Refuse(list_items_answer(dep, docs))

\* GET /items/{id}
get_item(id) ==
    LET dep == get_db
        parsed == object_id_from_str(id)
        r == find_one(items, parsed.oid)
    IN  IF ~dep.ok THEN Refuse(Unavailable("get", id, NoBody))
        ELSE IF ~parsed.ok THEN Refuse(InvalidObjectId("get", id, NoBody, dep))
        ELSE Refuse(get_item_answer(id, dep, r.result))

\* PUT /items/{id}
update_item(id, raw) ==
    LET dep == get_db
        parsed == object_id_from_str(id)
        update_doc == BuildUpdateDoc(ItemUpdate(raw))
        r == IF DOMAIN update_doc = {}
             THEN find_one(items, parsed.oid)
             ELSE find_one_and_update(items, parsed.oid, update_doc)
        call == IF DOMAIN update_doc = {} THEN "find_one"
                ELSE "find_one_and_update"
    IN  IF ~dep.ok THEN Refuse(Unavailable("update", id, raw))
        ELSE IF ~ItemUpdateValid(raw)
        THEN Refuse(Unprocessable("update", id, raw, dep))
        ELSE IF ~parsed.ok THEN Refuse(InvalidObjectId("update", id, raw, dep))
        ELSE /\ items' = r.coll
             /\ last' = update_item_answer(id, raw, dep, r.result, call)
             /\ fresh' = IF parsed.oid \in DOMAIN fresh
                         THEN Drop(fresh, parsed.oid) ELSE fresh
             /\ UNCHANGED <<phase, holder, now, nextOid, created, deleted,
                            inflight>>

\* DELETE /items/{id}
delete_item(id) ==
    LET dep == get_db
        parsed == object_id_from_str(id)
        r == delete_one(items, parsed.oid)
        a == delete_item_answer(id, dep, r.result)
    IN  IF ~dep.ok THEN Refuse(Unavailable("delete", id, NoBody))
        ELSE IF ~parsed.ok
        THEN Refuse(InvalidObjectId("delete", id, NoBody, dep))
        ELSE /\ items' = r.coll
             /\ last' = a
             /\ deleted' = IF a.status = 204 THEN deleted \cup {parsed.oid}
                           ELSE deleted
             /\ fresh' = IF parsed.oid \in DOMAIN fresh
                         THEN Drop(fresh, parsed.oid) ELSE fresh
             /\ UNCHANGED <<phase, holder, now, nextOid, created, inflight>>

(***************************************************************************)
(* The service as deployed: startup, then requests one at a time while the *)
(* application serves, then shutdown.                                      *)
(***************************************************************************)
Serving == phase = "serving"

Next ==
    \/ on_startup
    \/ on_shutdown
    \/ Serving /\ health_check
    \/ Serving /\ root_health_check
    \/ Serving /\ \E raw \in RawCreateBodies : \E t \in ClockReadings :
                     create_item(raw, t)
    \/ Serving /\ list_items
    \/ Serving /\ \E id \in RequestIds : get_item(id)
    \/ Serving /\ \E id \in RequestIds : \E raw \in RawUpdateBodies :
                     update_item(id, raw)
    \/ Serving /\ \E id \in RequestIds : delete_item(id)

Spec == Init /\ [][Next]_vars

(***************************************************************************)
(* The same service, asked with every spelling of an id.                   *)
(***************************************************************************)
NextIds ==
    \/ on_startup
    \/ on_shutdown
    \/ Serving /\ health_check
    \/ Serving /\ root_health_check
    \/ Serving /\ \E raw \in FewCreateBodies : \E t \in ClockReadings :
                     create_item(raw, t)
    \/ Serving /\ list_items
    \/ Serving /\ \E id \in IdStrings : get_item(id)
    \/ Serving /\ \E id \in IdStrings : \E raw \in FewUpdateBodies :
                     update_item(id, raw)
    \/ Serving /\ \E id \in IdStrings : delete_item(id)

SpecIds == Init /\ [][NextIds]_vars

(***************************************************************************)
(* The holder by itself: init(), close() and the reads in any order, and   *)
(* the handlers called whatever the holder's state (as a caller that does  *)
(* not run the lifecycle hooks would).                                     *)
(***************************************************************************)
HolderIds == {GenChars(1), NotAnId}

NextHolder ==
    \/ init
    \/ close
    \/ read_client
    \/ read_db
    \/ health_check
    \/ root_health_check
    \/ \E raw \in FewCreateBodies : \E t \in ClockReadings : create_item(raw, t)
    \/ list_items
    \/ \E id \in HolderIds : get_item(id)
    \/ \E id \in HolderIds : \E raw \in FewUpdateBodies : update_item(id, raw)
    \/ \E id \in HolderIds : delete_item(id)

SpecHolder == Init /\ [][NextHolder]_vars

(***************************************************************************)
(* Requests interleaved.  A handler runs without interruption up to its    *)
(* `await` of the store call (begin), the store executes the call          *)
(* atomically at some later moment (store_call), and the handler resumes   *)
(* with the result and answers (finish).  Other requests take steps in     *)
(* between.  A request in flight is [stage, op, id, payload, oid, doc,     *)
(* result]: doc is the document to insert or the update document, result   *)
(* what the store call returned.                                           *)
(***************************************************************************)
ConcIds == {GenChars(1), NotAnId}
ConcUpdateBodies ==
    {[name |-> Absent, description |-> Absent],
     [name |-> "b", description |-> Absent]}

Pending(op, id, raw, oid, doc) ==
    [stage |-> "pending", op |-> op, id |-> id, payload |-> raw, oid |-> oid,
     doc |-> doc, result |-> <<>>]

\* the handler of slot s has reached its await
Await(s, req) ==
    /\ inflight' = [inflight EXCEPT ![s] = req]
    /\ UNCHANGED <<phase, holder, items, nextOid, last, history>>

\* create_item up to `await db["items"].insert_one(doc)`
begin_create(s, raw, t) ==
    /\ inflight[s].stage = "idle"
    /\ IF ~get_db.ok THEN Refuse(Unavailable("create", <<>>, raw))
       ELSE IF ~ItemCreateValid(raw)
       THEN Refuse(Unprocessable("create", <<>>, raw, get_db))
       ELSE /\ Await(s, Pending("create", <<>>, raw, "",
                                NewDoc(ItemCreate(raw), t)))
            /\ now' = t

\* list_items up to `await cursor.to_list(length=1000)`
begin_list(s) ==
    /\ inflight[s].stage = "idle"
    /\ IF ~get_db.ok THEN Refuse(Unavailable("list", <<>>, NoBody))
       ELSE Await(s, Pending("list", <<>>, NoBody, "", <<>>)) /\ now' = now

\* get_item up to `await db["items"].find_one(...)`
begin_get(s, id) ==
    /\ inflight[s].stage = "idle"
    /\ IF ~get_db.ok THEN Refuse(Unavailable("get", id, NoBody))
       ELSE IF ~object_id_from_str(id).ok
       THEN Refuse(InvalidObjectId("get", id, NoBody, get_db))
       ELSE /\ Await(s, Pending("get", id, NoBody,
                                object_id_from_str(id).oid, <<>>))
            /\ now' = now

\* update_item up to its await of find_one or find_one_and_update
begin_update(s, id, raw) ==
    /\ inflight[s].stage = "idle"
    /\ IF ~get_db.ok THEN Refuse(Unavailable("update", id, raw))
       ELSE IF ~ItemUpdateValid(raw)
       THEN Refuse(Unprocessable("update", id, raw, get_db))
       ELSE IF ~object_id_from_str(id).ok
       THEN Refuse(InvalidObjectId("update", id, raw, get_db))
       ELSE /\ Await(s, Pending("update", id, raw,
                                object_id_from_str(id).oid,
                                BuildUpdateDoc(ItemUpdate(raw))))
            /\ now' = now

\* delete_item up to `await db["items"].delete_one(...)`
begin_delete(s, id) ==
    /\ inflight[s].stage = "idle"
    /\ IF ~get_db.ok THEN Refuse(Unavailable("delete", id, NoBody))
       ELSE IF ~object_id_from_str(id).ok
       THEN Refuse(InvalidObjectId("delete", id, NoBody, get_db))
       ELSE /\ Await(s, Pending("delete", id, NoBody,
                                object_id_from_str(id).oid, <<>>))
            /\ now' = now

\* the store call a pending request waits for, on collection coll
StoreCall(req, coll, k) ==
    CASE req.op = "create" -> insert_one(coll, req.doc, k)
      [] req.op = "get" -> find_one(coll, req.oid)
      [] req.op = "update" ->
            IF DOMAIN req.doc = {} THEN find_one(coll, req.oid)
            ELSE find_one_and_update(coll, req.oid, req.doc)
      [] req.op = "delete" -> delete_one(coll, req.oid)

\* the store executes the call of slot s
store_call(s) ==
    /\ inflight[s].stage = "pending"
    /\ inflight[s].op # "list"
    /\ inflight[s].op = "create" => nextOid <= MaxCreates
    /\ LET r == StoreCall(inflight[s], items, nextOid)
       IN  /\ items' = r.coll
           /\ inflight' = [inflight EXCEPT ![s].stage = "returned",
                                           ![s].result = r.result]
    /\ nextOid' = IF inflight[s].op = "create" THEN nextOid + 1 ELSE nextOid
    /\ UNCHANGED <<phase, holder, now, last, history>>

\* the store executes the listing of slot s
store_find(s) ==
    /\ inflight[s].stage = "pending"
    /\ inflight[s].op = "list"
    /\ \E docs \in find_sorted(items, ListLength) :
          inflight' = [inflight EXCEPT ![s].stage = "returned",
                                       ![s].result = docs]
    /\ UNCHANGED <<phase, holder, items, now, nextOid, last, history>>

\* what the handler of a returned request answers
Answer(req, dep) ==
    CASE req.op = "create" ->
            create_item_answer(req.payload, dep, req.doc, req.result)
      [] req.op = "list" -> list_items_answer(dep, req.result)
      [] req.op = "get" -> get_item_answer(req.id, dep, req.result)
      [] req.op = "update" ->
            update_item_answer(req.id, req.payload, dep, req.result,
                               IF DOMAIN req.doc = {} THEN "find_one"
                               ELSE "find_one_and_update")
      [] req.op = "delete" -> delete_item_answer(req.id, dep, req.result)

\* the handler of slot s resumes and answers
finish(s) ==
    /\ inflight[s].stage = "returned"
    /\ LET req == inflight[s]
           a == Answer(req, [ok |-> TRUE, handle |-> "AsyncIOMotorDatabase"])
       IN  /\ last' = a
           /\ created' = IF req.op = "create" /\ a.status = 201
                         THEN created \cup {req.result} ELSE created
           /\ deleted' = IF req.op = "delete" /\ a.status = 204
                         THEN deleted \cup {req.oid} ELSE deleted
           /\ fresh' = IF req.op = "create" /\ a.status = 201
                       THEN Put(fresh, req.result, a.body[1])
                       ELSE IF req.op \in {"update", "delete"}
                               /\ req.oid \in DOMAIN fresh
                       THEN Drop(fresh, req.oid)
                       ELSE fresh
    /\ inflight' = [inflight EXCEPT ![s] = Idle]
    /\ UNCHANGED <<phase, holder, items, now, nextOid>>

NextConc ==
    \/ on_startup
    \/ on_shutdown
    \/ Serving /\ \E s \in Slots : \E raw \in FewCreateBodies :
                     \E t \in {now} : begin_create(s, raw, t)
    \/ Serving /\ \E s \in Slots : begin_list(s)
    \/ Serving /\ \E s \in Slots : \E id \in ConcIds : begin_get(s, id)
    \/ Serving /\ \E s \in Slots : \E id \in ConcIds :
                     \E raw \in ConcUpdateBodies : begin_update(s, id, raw)
    \/ Serving /\ \E s \in Slots : \E id \in ConcIds : begin_delete(s, id)
    \/ \E s \in Slots : store_call(s)
    \/ \E s \in Slots : store_find(s)
    \/ \E s \in Slots : finish(s)

SpecConc == Init /\ [][NextConc]_vars

(***************************************************************************)
(* Properties.                                                             *)
(***************************************************************************)
\* the handlers that take an id
IdOps == {"get", "update", "delete"}

\* the id string is 24 hex digits
IsHex24(id) ==
    /\ Len(id) = 24
    /\ \A i \in 1..Len(id) :
          id[i] \in {"0", "1", "2", "3", "4", "5", "6", "7", "8", "9",
                     "a", "b", "c", "d", "e", "f",
                     "A", "B", "C", "D", "E", "F"}

\* the ObjectId a well-formed id string names
OidOf(id) == object_id_from_str(id).oid

\* a step of the deployed service that completes a request (the other
\* steps are the lifecycle hooks); last' is then that request
RequestStep == phase' = phase

\* C1: a Get, Update or Delete whose id string is not 24 hex digits ends
\* with 422 (never 404) whatever the store and the payload, issues no store
\* call, and leaves the store unchanged.
C1_MalformedIdIs422 ==
    /\ [](last.op \in IdOps /\ ~IsHex24(last.id)
            => last.status = 422 /\ last.calls = <<>>)
    /\ [][RequestStep /\ last'.op \in IdOps /\ ~IsHex24(last'.id)
            => items' = items]_vars

C1_Witness ==
    /\ last.op = "update"
    /\ last.id = NotAnId
    /\ last.payload = [name |-> "b", description |-> Absent]
    /\ last.status = 422
    /\ last.detail = "Invalid ObjectId"
    /\ DOMAIN items # {}

\* C2: once a Delete of an id has returned 204, the id is never in the
\* store again (no Create is given it, no Update brings it back) and every
\* later Get, Update and Delete of it returns 404.
C2_DeletedStaysGone ==
    /\ [](\A oid \in deleted : oid \notin DOMAIN items)
    /\ [][\A oid \in deleted :
             /\ oid \in deleted'
             /\ oid \notin DOMAIN items'
             /\ (RequestStep /\ last'.op \in IdOps /\ IsHex24(last'.id)
                   /\ OidOf(last'.id) = oid)
                  => last'.status = 404]_vars

C2_Witness ==
    /\ last.op = "update"
    /\ last.payload = [name |-> "b", description |-> Absent]
    /\ IsHex24(last.id)
    /\ OidOf(last.id) \in deleted
    /\ last.status = 404
    /\ nextOid > MaxCreates
    /\ DOMAIN items # {}

\* the item a client is shown for the stored document of ObjectId o
StoredItem(o) ==
    [id |-> o, name |-> items[o].name, description |-> items[o].description,
     created_at |-> [t |-> items[o].created_at, tz |-> "naive"]]

\* C3: every stored item has an id different from every other stored
\* item's id and a name of length at least 1.
C3_UniqueIdNonEmptyName ==
    /\ \A o1, o2 \in DOMAIN items :
          o1 # o2 => StoredItem(o1).id # StoredItem(o2).id
    /\ \A o \in DOMAIN items :
          items[o].name # None /\ Len(items[o].name) >= 1

\* C4: an Update changes nothing but the fields it was given: the stored
\* ids are the same, every other item is unchanged, a field absent from the
\* payload keeps its value, and the id and created_at it answers with are
\* the stored ones; over any step an item's created_at stays what it was,
\* and an id is given to a new item only if it was never given before.
C4_UpdateFrame ==
    [][/\ \A o \in DOMAIN items \cap DOMAIN items' :
             items'[o].created_at = items[o].created_at
       /\ \A o \in DOMAIN items' \ DOMAIN items :
             o \notin created \cup deleted
       /\ (RequestStep /\ last'.op = "update") =>
            /\ DOMAIN items' = DOMAIN items
            /\ \A o \in DOMAIN items :
                  /\ ~(IsHex24(last'.id) /\ OidOf(last'.id) = o)
                        => items'[o] = items[o]
                  /\ last'.payload.name = Absent
                        => items'[o].name = items[o].name
                  /\ last'.payload.description = Absent
                        => items'[o].description = items[o].description
            /\ last'.status = 200 =>
                  /\ last'.body[1].id = OidOf(last'.id)
                  /\ last'.body[1].created_at.t
                        = items[OidOf(last'.id)].created_at]_vars

C4_Witness ==
    /\ last.op = "update"
    /\ last.payload = [name |-> "b", description |-> Absent]
    /\ last.status = 200
    /\ last.body[1].name = "b"
    /\ last.body[1].description = "d"
    /\ last.body[1].created_at.t > 0
    /\ Cardinality(DOMAIN items) = 2

\* C5: for an Update of an existing id, every field the payload provides
\* is stored with the payload's value (a description provided as null is
\* stored as null), and the answer is 200 with the stored document after
\* the write.
C5_UpdateAppliesProvided ==
    (last.op = "update" /\ IsHex24(last.id) /\ OidOf(last.id) \in DOMAIN items)
      => /\ last.payload.name \notin {Absent, None}
               => items[OidOf(last.id)].name = last.payload.name
         /\ last.payload.description # Absent
               => items[OidOf(last.id)].description = last.payload.description
         /\ last.status = 200
         /\ last.body = <<StoredItem(OidOf(last.id))>>

\* C6: an Update with no fields set answers 200 with the current item when
\* the id is stored, after a read only, and 404 when it is not.
C6_EmptyUpdateIsProbe ==
    (last.op = "update" /\ last.payload = NoBody /\ IsHex24(last.id))
      => IF OidOf(last.id) \in DOMAIN items
         THEN /\ last.status = 200
              /\ last.body = <<StoredItem(OidOf(last.id))>>
              /\ last.calls = <<"find_one">>
         ELSE last.status = 404

\* what a valid creation payload asks for
Requested(raw) ==
    [name |-> raw.name,
     description |-> IF raw.description = Absent THEN None
                     ELSE raw.description]

\* the Create of an accepted payload answers 201 with a stored id, the
\* payload's name and description and the UTC reading of the clock
CreateAnswers ==
    (last.op = "create" /\ last.payload.name \notin {Absent, None, ""})
      => /\ last.status = 201
         /\ last.body[1].id \in DOMAIN items
         /\ last.body[1].name = Requested(last.payload).name
         /\ last.body[1].description = Requested(last.payload).description
         /\ last.body[1].created_at = [t |-> now, tz |-> "utc"]
         /\ last.calls = <<"insert_one">>

AsStored(dt) == [t |-> dt.t - (dt.t % TicksPerMs), tz |-> "naive"]

\* C7, amended: Create answers 201 with a new id, the payload's name and
\* description and the UTC clock reading; the Get answers 200 with the id,
\* name and description the Create returned, and with the Create's
\* created_at cut to the store's resolution and without its UTC offset.
RoundTripAsStored ==
    /\ CreateAnswers
    /\ (last.op = "get" /\ IsHex24(last.id) /\ OidOf(last.id) \in DOMAIN fresh)
         => /\ last.status = 200
            /\ last.body =
                 <<[fresh[OidOf(last.id)] EXCEPT
                      !.created_at = AsStored(fresh[OidOf(last.id)].created_at)]>>

C8_ListNewestFirst ==
    last.op = "list" =>
      /\ last.status = 200
      /\ last.calls = <<"find">>
      /\ \A i \in 1..Len(last.body) :
            /\ last.body[i].id \in DOMAIN items
            /\ last.body[i] = StoredItem(last.body[i].id)
      /\ \A i, j \in 1..Len(last.body) :
            i < j => /\ last.body[i].id # last.body[j].id
                     /\ last.body[i].created_at.t >= last.body[j].created_at.t
      /\ Len(last.body) = Min(Cardinality(DOMAIN items), ListLength)
      /\ \A o \in DOMAIN items :
            (\A i \in 1..Len(last.body) : last.body[i].id # o)
               => \A i \in 1..Len(last.body) :
                     items[o].created_at <= last.body[i].created_at.t

\* the requests whose handler takes the database from the holder
DbOps == {"create", "list", "get", "update", "delete", "health"}

\* C9: before init() and after close() the holder's fields are empty, and
\* a read of client or db, get_db in a handler and the health probe fail
\* with the uninitialized error and give no handle; between init() and
\* close() they give the handle; close() can be called in any state and
\* leaves the fields empty; the fields change only by init() and close().
C9_HolderLifecycle ==
    /\ [](/\ (inits = 0) => (_client = None /\ _db = None)
          /\ (last.op = "close") => (_client = None /\ _db = None)
          /\ (last.op = "init") => (_client # None /\ _db # None)
          /\ (last.op = "client") =>
                IF _client = None
                THEN last.detail = "RuntimeError" /\ last.handle = None
                ELSE last.detail = "" /\ last.handle = _client
          /\ (last.op = "db") =>
                IF _db = None
                THEN last.detail = "RuntimeError" /\ last.handle = None
                ELSE last.detail = "" /\ last.handle = _db
          /\ (last.op \in DbOps) =>
                IF _db = None
                THEN /\ last.status = 500
                     /\ last.detail = "RuntimeError"
                     /\ last.handle = None
                     /\ last.calls = <<>>
                ELSE last.handle = _db /\ last.detail # "RuntimeError"
          /\ openClients >= 0
          /\ (inits <= 1 /\ _client = None) => openClients = 0
          /\ ENABLED close)
    /\ [][/\ (last'.op # "init" /\ last'.op # "close")
                => (_client' = _client /\ _db' = _db)
          /\ (_db = None /\ last'.op \in DbOps) => items' = items]_vars

C9_Witness ==
    /\ inits = MaxInits
    /\ _db = None
    /\ openClients = 1
    /\ last.op = "get"
    /\ last.status = 500
    /\ DOMAIN items # {}

\* the ids inserted by a Create that has not answered yet
InsertedUnanswered ==
    {inflight[s].result : s \in {t \in Slots : inflight[t].stage = "returned"
                                              /\ inflight[t].op = "create"}}

\* the ids removed by a Delete that has not answered yet
RemovedUnanswered ==
    {inflight[s].oid : s \in {t \in Slots : /\ inflight[t].stage = "returned"
                                            /\ inflight[t].op = "delete"
                                            /\ inflight[t].result = 1}}

\* C10 as stated: the stored ids are always exactly the ids returned by
\* completed Creates minus the ids whose Delete returned 204.
C10_StoredIsCreatedMinusDeleted ==
    DOMAIN items = created \ deleted

\* C10, amended: the stored ids are always the ids inserted (returned by a
\* completed Create, or inserted by a Create that has not answered yet)
\* minus the ids removed (by a Delete that returned 204 or has not answered
\* yet), hence created minus deleted whenever no Create or Delete is
\* between its store call and its answer; the store call of an Update never
\* changes the set of stored ids; an id is removed by at most one Delete,
\* and the Delete whose store call finds the id removes it and is the one
\* that answers 204.
C10_StoredIds ==
    /\ [](/\ DOMAIN items = (created \cup InsertedUnanswered)
                               \ (deleted \cup RemovedUnanswered)
          /\ (InsertedUnanswered = {} /\ RemovedUnanswered = {})
                => DOMAIN items = created \ deleted
          /\ \A s, t \in Slots :
                (/\ s # t
                 /\ inflight[s].stage = "returned" /\ inflight[s].op = "delete"
                 /\ inflight[t].stage = "returned" /\ inflight[t].op = "delete"
                 /\ inflight[s].oid = inflight[t].oid)
                  => ~(inflight[s].result = 1 /\ inflight[t].result = 1)
          /\ deleted \cap RemovedUnanswered = {})
    /\ [][\A s \in Slots :
            /\ (inflight[s].stage = "pending" /\ inflight'[s].stage = "returned"
                  /\ inflight[s].op = "update")
                 => DOMAIN items' = DOMAIN items
            /\ (inflight[s].stage = "pending" /\ inflight'[s].stage = "returned"
                  /\ inflight[s].op = "delete")
                 => /\ inflight'[s].result
                         = (IF inflight[s].oid \in DOMAIN items THEN 1 ELSE 0)
                    /\ inflight[s].oid \notin DOMAIN items'
            /\ (inflight[s].stage = "returned" /\ inflight'[s].stage = "idle"
                  /\ inflight[s].op = "delete")
                 => last'.status = (IF inflight[s].result = 1 THEN 204 ELSE 404)
         ]_vars

C10_Witness ==
    \E s, t \in Slots :
       /\ inflight[s].stage = "returned" /\ inflight[s].op = "delete"
       /\ inflight[s].result = 1
       /\ inflight[t].stage = "returned" /\ inflight[t].op = "delete"
       /\ inflight[t].result = 0
       /\ inflight[t].oid = inflight[s].oid

====
